---- MODULE Spec2Model ----
(***************************************************************************)
(* log-once: the `*_once!` macro family of src/src/lib.rs, run by a small  *)
(* client program with several threads and several invocation sites.       *)
(*                                                                         *)
(* Every invocation of `log_once!(target: .., lvl, msg)` expands to its    *)
(* own `static mut __SEEN_MESSAGES` / `static ONCE` pair, so the model     *)
(* keeps one lazily created Mutex<BTreeSet<String>> per invocation site.   *)
(* Strings are TLA+ strings, `+` on String is \o.                          *)
(***************************************************************************)
EXTENDS Integers, Sequences, FiniteSets, TLC

(* ------------------------------ bounds --------------------------------- *)
\* threads of the concurrent client
NumThreads == 2
\* calls the concurrent client makes in all
MaxCalls == 2
\* calls the sequential client makes
MaxSeqCalls == 4
\* the loop variable i of the format sites ranges over 0..MaxArg
MaxArg == 2

Threads == 1..NumThreads
\* std::sync::Mutex unlocked: no thread holds the guard.
NoThread == 0

(* --------------------------- log::LogLevel ----------------------------- *)
LogLevel == {"Error", "Warn", "Info", "Debug", "Trace"}

\* log::LogLevelFilter
LogLevelFilter == {"Off", "Error", "Warn", "Info", "Debug", "Trace"}

\* the discriminant of a level or of a filter (Off lowest, Trace highest)
LevelRank(l) ==
    CASE l = "Off" -> 0 [] l = "Error" -> 1 [] l = "Warn" -> 2
      [] l = "Info" -> 3 [] l = "Debug" -> 4 [] l = "Trace" -> 5

\* the test log! makes before it builds the record: lvl <= max_log_level()
LevelEnabled(lvl, max) == LevelRank(lvl) <= LevelRank(max)

LevelMacros == {"error_once", "warn_once", "info_once", "debug_once", "trace_once"}

(* ---------------- macro arguments: expressions as tokens ---------------- *)
\* An expression handed to a macro is kept as its token text (what
\* stringify! yields) together with what evaluating it yields.
NoExpr == [kind |-> "none", text |-> "", val |-> ""]

\* a string literal "s"
Lit(s) == [kind |-> "lit", text |-> "\"" \o s \o "\"", val |-> s]

\* a local variable of the caller, its value known only at run time
Var(name) == [kind |-> "var", text |-> name, val |-> ""]

\* the module the client's calls are written in
ClientModule == "app"

\* module_path!()
ModulePathExpr == [kind |-> "macro", text |-> "module_path!()", val |-> ClientModule]

\* $crate::LogLevel::<L>, as the level macros write it
CrateLevel(L) == [kind |-> "path", text |-> "$crate::LogLevel::" \o L, val |-> L]

\* LogLevel::<L>, as a client writes it
ClientLevel(L) == [kind |-> "path", text |-> "LogLevel::" \o L, val |-> L]

\* stringify!(e)
Stringify(e) == e.text

\* the value of e in the caller's environment env (its local variables)
Eval(e, env) == IF e.kind = "var" THEN env[e.text] ELSE e.val

(* ------------------------------ format! -------------------------------- *)
DigitChar(d) ==
    CASE d = 0 -> "0" [] d = 1 -> "1" [] d = 2 -> "2" [] d = 3 -> "3"
      [] d = 4 -> "4" [] d = 5 -> "5" [] d = 6 -> "6" [] d = 7 -> "7"
      [] d = 8 -> "8" [] d = 9 -> "9"

RECURSIVE Display(_)
\* Display for an unsigned integer
Display(n) == IF n < 10 THEN DigitChar(n) ELSE Display(n \div 10) \o DigitChar(n % 10)

RECURSIVE FormatStr(_, _)
\* format!(pieces, args..): literal pieces copied, each "{}" replaced by
\* the Display of the next argument
FormatStr(pieces, args) ==
    IF pieces = <<>> THEN ""
    ELSE IF Head(pieces) = "{}"
         THEN Display(Head(args)) \o FormatStr(Tail(pieces), Tail(args))
         ELSE Head(pieces) \o FormatStr(Tail(pieces), args)

(* ------------------------- macro expansion ----------------------------- *)
\* An invocation as written: [macro, target, lvl, form, fmt, msg].
\*   form = "fmt": a format string and interpolation arguments
\*   form = "msg": a single message expression
\* L_once!(..) => log_once!(.., $crate::LogLevel::L, ..), target passed on
LevelOnce(L, inv) == [inv EXCEPT !.macro = "log_once", !.lvl = CrateLevel(L)]

ErrorOnce(inv) == LevelOnce("Error", inv)

\* warn_once! pasted from error_once! with the level left as it was
WarnOnceAsError(inv) == LevelOnce("Error", inv)

WarnOnce(inv) == LevelOnce("Warn", inv)

InfoOnce(inv) == LevelOnce("Info", inv)

DebugOnce(inv) == LevelOnce("Debug", inv)

TraceOnce(inv) == LevelOnce("Trace", inv)

\* log_once!(lvl, ..) => log_once!(target: module_path!(), lvl, ..)
DefaultTarget(inv) ==
    IF inv.target = NoExpr THEN [inv EXCEPT !.target = ModulePathExpr] ELSE inv

\* the innermost log_once!(target: .., lvl, ..) an invocation expands to
Expand(inv) ==
    CASE inv.macro = "error_once" -> DefaultTarget(ErrorOnce(inv))
      [] inv.macro = "warn_once"  -> DefaultTarget(WarnOnce(inv))
      [] inv.macro = "info_once"  -> DefaultTarget(InfoOnce(inv))
      [] inv.macro = "debug_once" -> DefaultTarget(DebugOnce(inv))
      [] inv.macro = "trace_once" -> DefaultTarget(TraceOnce(inv))
      [] OTHER                    -> DefaultTarget(inv)

\* the level a level macro logs at
MacroLevel(m) ==
    CASE m = "error_once" -> "Error" [] m = "warn_once" -> "Warn"
      [] m = "info_once" -> "Info" [] m = "debug_once" -> "Debug"
      [] m = "trace_once" -> "Trace"

\* a fingerprint that leaves the message out
FingerprintNoMessage(x, message) == Stringify(x.target) \o Stringify(x.lvl)

\* let event = String::from(stringify!($target)) + stringify!($lvl) + $message.as_ref();
Fingerprint(x, message) == Stringify(x.target) \o Stringify(x.lvl) \o message

\* $message standing for the format arguments themselves
MessageEvalsAlways(x) == 1

\* how often the caller's argument expressions are evaluated by one use of
\* $message: in the format form $message is the local `message`
MessageEvals(x) == IF x.form = "msg" THEN 1 ELSE 0

(* ------------------------- the client program -------------------------- *)
VARIABLES
    entry,      \* the level macro the client uses at sites "a" and "b"
    pc,         \* per thread: where it is in its current call
    call,       \* per thread: the locals of its current call
    ncalls,     \* calls started so far
    once,       \* per site: the state of ONCE
    holder,     \* per site: the thread holding the Mutex, or NoThread
    poisoned,   \* per site: the Mutex is poisoned
    seen,       \* per site: the BTreeSet<String> inside the Mutex
    emitted,    \* records handed to log!, in order
    maxLevel,   \* the facade's maximum level, log::max_log_level()
    inserted,   \* history, per site: the fingerprints inserted, in order
    constructions, \* history, per site: how often the closure of ONCE ran
    returned,   \* history: the calls that have returned
    issued,     \* history: the calls made, in order, with their fingerprints
    started     \* history: how many threads have made a call

vars == <<entry, pc, call, ncalls, once, holder, poisoned, seen, emitted,
          maxLevel, inserted, constructions,
          returned, issued, started>>

Sites == {"a", "b", "c", "d"}

\* the sites of the client that mixes level macros and explicit targets
MainSites == {"a", "b", "c"}

\* the sites of the client whose threads share a format site and a
\* message site
SharedSites == {"a", "b"}

\* the site the threads of the fairly scheduled client all call through
FairSites == {"a"}

\* the sites of the client that writes the same call both ways
TwinSites == {"a", "d"}

\* The client's invocation sites, as written:
\*   a:  <entry>!("m{}", i % 2)
\*   b:  <entry>!("m0")
\*   c:  log_once!(target: t, lvl, "m0")
\*   d:  log_once!(target: "app", LogLevel::<L>, "m{}", i % 2)
Site(s) ==
    CASE s = "a" ->
           [macro |-> entry, target |-> NoExpr, lvl |-> NoExpr,
            form |-> "fmt", fmt |-> <<"m", "{}">>, msg |-> ""]
      [] s = "b" ->
           [macro |-> entry, target |-> NoExpr, lvl |-> NoExpr,
            form |-> "msg", fmt |-> <<>>, msg |-> "m0"]
      [] s = "c" ->
           [macro |-> "log_once", target |-> Var("t"), lvl |-> Var("lvl"),
            form |-> "msg", fmt |-> <<>>, msg |-> "m0"]
      [] s = "d" ->
           [macro |-> "log_once", target |-> Lit(ClientModule),
            lvl |-> ClientLevel(MacroLevel(entry)),
            form |-> "fmt", fmt |-> <<"m", "{}">>, msg |-> ""]

\* values the client's variables t and lvl take at site c
VarTargets == {"A", "B"}

VarLevels == {"Error", "Warn"}

\* the interpolation argument of the format sites: i % 2
ArgValue(i) == i % 2

\* the inputs a call through site s can be made with
Inputs(s) ==
    IF Site(s).form = "fmt"
    THEN {[i |-> i, t |-> "", lvl |-> ""] : i \in 0..MaxArg}
    ELSE IF Site(s).target.kind = "var"
         THEN {[i |-> 0, t |-> t, lvl |-> l] : t \in VarTargets, l \in VarLevels}
         ELSE {[i |-> 0, t |-> "", lvl |-> ""]}

\* the message a call renders (format form) or evaluates (message form)
Render(x, in) ==
    IF x.form = "fmt" THEN FormatStr(x.fmt, <<ArgValue(in.i)>>) ELSE x.msg

NoCall == [site |-> "", in |-> [i |-> 0, t |-> "", lvl |-> ""], message |-> "",
           event |-> "", evals |-> 0, outcome |-> "none"]

X(t) == Expand(Site(call[t].site))

\* the client before its first call, whatever the facade's maximum level
InitClient ==
    /\ entry \in LevelMacros
    /\ pc = [t \in Threads |-> "idle"]
    /\ call = [t \in Threads |-> NoCall]
    /\ ncalls = 0
    /\ once = [s \in Sites |-> "incomplete"]
    /\ holder = [s \in Sites |-> NoThread]
    /\ poisoned = [s \in Sites |-> FALSE]
    /\ seen = [s \in Sites |-> {}]
    /\ emitted = <<>>
    /\ returned = {}
    /\ issued = <<>>
    /\ started = 0
    /\ inserted = [s \in Sites |-> <<>>]
    /\ constructions = [s \in Sites |-> 0]

\* the tests' logger::init(): max_log_level.set(LogLevelFilter::Trace)
Init == InitClient /\ maxLevel = "Trace"

\* a client that installs its logger with any maximum level
InitLevel == InitClient /\ maxLevel \in LogLevelFilter

(* ------------------------------ helpers -------------------------------- *)
\* Mutex::lock can take the guard
LockFree(s) == holder[s] = NoThread

\* a lookup that never finds the event
ContainsNever(set, event) == FALSE

\* seen_messages.contains(&event)
Contains(set, event) == event \in set

\* insert that drops the event
InsertNothing(set, event) == set

\* insert into a cache that keeps the last event only
InsertLast(set, event) == {event}

\* seen_messages.insert(event)
Insert(set, event) == set \cup {event}

\* the record log!(target: $target, $lvl, "{}", $message) hands to the facade
Record(t) ==
    [site |-> call[t].site,
     target |-> Eval(X(t).target, call[t].in),
     level |-> Eval(X(t).lvl, call[t].in),
     message |-> call[t].message]

\* what the history remembers of a call that returned
Returned(t) ==
    [site |-> call[t].site, i |-> call[t].in.i,
     target |-> Eval(X(t).target, call[t].in),
     level |-> Eval(X(t).lvl, call[t].in),
     message |-> call[t].message]

(* ------------------------------ actions -------------------------------- *)
\* a thread reaches invocation site s with the inputs in
\* (threads are numbered in the order of their first call)
Call(t, s, in) ==
    /\ pc[t] = "idle"
    /\ t <= started + 1
    /\ started' = IF t > started THEN t ELSE started
    /\ ncalls' = ncalls + 1
    /\ call' = [call EXCEPT ![t] = [NoCall EXCEPT !.site = s, !.in = in]]
    /\ pc' = [pc EXCEPT ![t] = IF Expand(Site(s)).form = "fmt" THEN "format" ELSE "once"]
    /\ issued' = Append(issued, [site |-> s, in |-> in,
                                  event |-> Fingerprint(Expand(Site(s)),
                                                        Render(Expand(Site(s)), in))])
    /\ UNCHANGED <<entry, once, holder, poisoned, seen, emitted, returned,
                   maxLevel, inserted, constructions>>

\* let message = format!($format, $($arg)+);
Format(t) ==
    /\ pc[t] = "format"
    /\ call' = [call EXCEPT ![t].message = Render(X(t), call[t].in),
                            ![t].evals = @ + 1]
    /\ pc' = [pc EXCEPT ![t] = "once"]
    /\ UNCHANGED <<entry, ncalls, once, holder, poisoned, seen, emitted,
                   returned, issued, started,
                   maxLevel, inserted, constructions>>

\* a call_once that runs its closure whatever the state of ONCE
OnceBeginAlways(t) ==
    /\ pc[t] = "once"
    /\ once' = [once EXCEPT ![call[t].site] = "running"]
    /\ pc' = [pc EXCEPT ![t] = "create"]
    /\ UNCHANGED <<entry, call, ncalls, holder, poisoned, seen, emitted,
                   returned, issued, started,
                   maxLevel, inserted, constructions>>

\* ONCE.call_once(..) on a ONCE nobody has started: this thread runs the
\* closure; a thread that finds ONCE running takes no step until it completes
OnceBegin(t) ==
    /\ pc[t] = "once"
    /\ once[call[t].site] = "incomplete"
    /\ once' = [once EXCEPT ![call[t].site] = "running"]
    /\ pc' = [pc EXCEPT ![t] = "create"]
    /\ UNCHANGED <<entry, call, ncalls, holder, poisoned, seen, emitted,
                   returned, issued, started,
                   maxLevel, inserted, constructions>>

\* the closure: __SEEN_MESSAGES = transmute(Box::new(__MessagesSet::new())),
\* a new unlocked mutex around a new empty set; then ONCE is complete
CreateStatic(t) ==
    /\ pc[t] = "create"
    /\ seen' = [seen EXCEPT ![call[t].site] = {}]
    /\ holder' = [holder EXCEPT ![call[t].site] = NoThread]
    /\ poisoned' = [poisoned EXCEPT ![call[t].site] = FALSE]
    /\ constructions' = [constructions EXCEPT ![call[t].site] = @ + 1]
    /\ once' = [once EXCEPT ![call[t].site] = "complete"]
    /\ pc' = [pc EXCEPT ![t] = "lock"]
    /\ UNCHANGED <<entry, call, ncalls, emitted, returned, issued, started,
                   maxLevel, inserted>>

\* ONCE.call_once(..) on a completed ONCE returns; &(*__SEEN_MESSAGES)
OnceDone(t) ==
    /\ pc[t] = "once"
    /\ once[call[t].site] = "complete"
    /\ pc' = [pc EXCEPT ![t] = "lock"]
    /\ UNCHANGED <<entry, call, ncalls, once, holder, poisoned, seen, emitted,
                   returned, issued, started,
                   maxLevel, inserted, constructions>>

\* a lock that does not exclude other holders
LockNoExclusion(t) ==
    /\ pc[t] = "lock"
    /\ ~poisoned[call[t].site]
    /\ holder' = [holder EXCEPT ![call[t].site] = t]
    /\ pc' = [pc EXCEPT ![t] = "event"]
    /\ UNCHANGED <<entry, call, ncalls, once, poisoned, seen, emitted,
                   returned, issued, started,
                   maxLevel, inserted, constructions>>

\* a lock that recovers the guard from a PoisonError
LockRecover(t) ==
    /\ pc[t] = "lock"
    /\ LockFree(call[t].site)
    /\ holder' = [holder EXCEPT ![call[t].site] = t]
    /\ pc' = [pc EXCEPT ![t] = "event"]
    /\ UNCHANGED <<entry, call, ncalls, once, poisoned, seen, emitted,
                   returned, issued, started,
                   maxLevel, inserted, constructions>>

\* __SEEN_MESSAGES.lock().expect(..) on a mutex that is not poisoned
Lock(t) ==
    /\ pc[t] = "lock"
    /\ LockFree(call[t].site)
    /\ ~poisoned[call[t].site]
    /\ holder' = [holder EXCEPT ![call[t].site] = t]
    /\ pc' = [pc EXCEPT ![t] = "event"]
    /\ UNCHANGED <<entry, call, ncalls, once, poisoned, seen, emitted,
                   returned, issued, started,
                   maxLevel, inserted, constructions>>

\* __SEEN_MESSAGES.lock().expect(..) on a poisoned mutex: lock() returns
\* Err, expect panics, the guard inside the error is dropped
LockPoisoned(t) ==
    /\ pc[t] = "lock"
    /\ LockFree(call[t].site)
    /\ poisoned[call[t].site]
    /\ pc' = [pc EXCEPT ![t] = "panicked"]
    /\ call' = [call EXCEPT ![t].outcome = "poison"]
    /\ UNCHANGED <<entry, ncalls, once, holder, poisoned, seen, emitted,
                   returned, issued, started,
                   maxLevel, inserted, constructions>>

\* let event = String::from(stringify!($target)) + stringify!($lvl) + $message.as_ref();
Event(t) ==
    /\ pc[t] = "event"
    /\ LET m == IF X(t).form = "msg" THEN Render(X(t), call[t].in) ELSE call[t].message
       IN call' = [call EXCEPT ![t].message = m,
                               ![t].event = Fingerprint(X(t), m),
                               ![t].evals = @ + MessageEvals(X(t))]
    /\ pc' = [pc EXCEPT ![t] = "contains"]
    /\ UNCHANGED <<entry, ncalls, once, holder, poisoned, seen, emitted,
                   returned, issued, started,
                   maxLevel, inserted, constructions>>

\* if !seen_messages.contains(&event) { .. }
Check(t) ==
    /\ pc[t] = "contains"
    /\ IF Contains(seen[call[t].site], call[t].event)
       THEN /\ pc' = [pc EXCEPT ![t] = "unlock"]
            /\ call' = [call EXCEPT ![t].outcome = "suppressed"]
       ELSE /\ pc' = [pc EXCEPT ![t] = "insert"]
            /\ call' = call
    /\ UNCHANGED <<entry, ncalls, once, holder, poisoned, seen, emitted,
                   returned, issued, started,
                   maxLevel, inserted, constructions>>

\* an insert whose guard is dropped before the record is forwarded
DoInsertRelease(t) ==
    /\ pc[t] = "insert"
    /\ seen' = [seen EXCEPT ![call[t].site] = Insert(@, call[t].event)]
    /\ inserted' = [inserted EXCEPT ![call[t].site] = Append(@, call[t].event)]
    /\ holder' = [holder EXCEPT ![call[t].site] = NoThread]
    /\ pc' = [pc EXCEPT ![t] = "log"]
    /\ UNCHANGED <<entry, call, ncalls, once, poisoned, emitted,
                   returned, issued, started, maxLevel, constructions>>

\* seen_messages.insert(event);
DoInsert(t) ==
    /\ pc[t] = "insert"
    /\ seen' = [seen EXCEPT ![call[t].site] = Insert(@, call[t].event)]
    /\ inserted' = [inserted EXCEPT ![call[t].site] = Append(@, call[t].event)]
    /\ pc' = [pc EXCEPT ![t] = "log"]
    /\ UNCHANGED <<entry, call, ncalls, once, holder, poisoned, emitted,
                   returned, issued, started, maxLevel, constructions>>

\* log!(target: $target, $lvl, "{}", $message): when the level passes the
\* facade's maximum level the arguments are evaluated and the record goes to
\* the logger, which returns; when it does not, log! does nothing
Log(t) ==
    /\ pc[t] = "log"
    /\ IF LevelEnabled(Record(t).level, maxLevel)
       THEN /\ emitted' = Append(emitted, Record(t))
            /\ call' = [call EXCEPT ![t].outcome = "emitted",
                                    ![t].evals = @ + MessageEvals(X(t))]
       ELSE /\ emitted' = emitted
            /\ call' = [call EXCEPT ![t].outcome = "filtered"]
    /\ pc' = [pc EXCEPT ![t] = "unlock"]
    /\ UNCHANGED <<entry, ncalls, once, holder, poisoned, seen,
                   returned, issued, started,
                   maxLevel, inserted, constructions>>

\* log!(..) where the installed logger panics on the record (as the test
\* logger's expect can): the thread unwinds, dropping the guard poisons
\* the mutex and unlocks it
LogPanic(t) ==
    /\ pc[t] = "log"
    /\ LevelEnabled(Record(t).level, maxLevel)
    /\ emitted' = Append(emitted, Record(t))
    /\ call' = [call EXCEPT ![t].outcome = "emitted",
                            ![t].evals = @ + MessageEvals(X(t))]
    /\ pc' = [pc EXCEPT ![t] = "panicked"]
    /\ holder' = [holder EXCEPT ![call[t].site] = NoThread]
    /\ poisoned' = [poisoned EXCEPT ![call[t].site] = TRUE]
    /\ UNCHANGED <<entry, ncalls, once, seen, returned, issued, started,
                   maxLevel, inserted, constructions>>

\* log!(..) where the installed logger, handling the record, itself logs
\* through the same invocation site (a helper function both the client and
\* the logger call): the nested expansion finds ONCE complete and comes to
\* __SEEN_MESSAGES.lock() while its own thread holds that mutex
LogReenter(t) ==
    /\ pc[t] = "log"
    /\ LevelEnabled(Record(t).level, maxLevel)
    /\ emitted' = Append(emitted, Record(t))
    /\ call' = [call EXCEPT ![t].outcome = "emitted",
                            ![t].evals = @ + MessageEvals(X(t))]
    /\ pc' = [pc EXCEPT ![t] = "relock"]
    /\ UNCHANGED <<entry, ncalls, once, holder, poisoned, seen,
                   returned, issued, started, maxLevel, inserted, constructions>>

\* Mutex::lock on a mutex the calling thread holds does not return: it
\* blocks for ever (no step from "relock") or it panics, as here; the
\* thread unwinds, dropping the outer guard poisons the mutex and unlocks it
RelockPanic(t) ==
    /\ pc[t] = "relock"
    /\ pc' = [pc EXCEPT ![t] = "panicked"]
    /\ call' = [call EXCEPT ![t].outcome = "relock"]
    /\ holder' = [holder EXCEPT ![call[t].site] = NoThread]
    /\ poisoned' = [poisoned EXCEPT ![call[t].site] = TRUE]
    /\ UNCHANGED <<entry, ncalls, once, seen, emitted, returned, issued,
                   started, maxLevel, inserted, constructions>>

\* a block that ends without dropping the guard (mem::forget)
UnlockLeak(t) ==
    /\ pc[t] = "unlock"
    /\ returned' = returned \cup {Returned(t)}
    /\ pc' = [pc EXCEPT ![t] = "idle"]
    /\ call' = [call EXCEPT ![t] = NoCall]
    /\ UNCHANGED <<entry, ncalls, once, holder, poisoned, seen, emitted, issued,
                   started, maxLevel, inserted, constructions>>

\* end of the block: seen_messages (the guard) is dropped, the call returns
Unlock(t) ==
    /\ pc[t] = "unlock"
    /\ holder' = [holder EXCEPT ![call[t].site] = NoThread]
    /\ returned' = returned \cup {Returned(t)}
    /\ pc' = [pc EXCEPT ![t] = "idle"]
    /\ call' = [call EXCEPT ![t] = NoCall]
    /\ UNCHANGED <<entry, ncalls, once, poisoned, seen, emitted, issued, started,
                   maxLevel, inserted, constructions>>

\* the client changes the facade's maximum level (max_log_level.set(f))
SetMaxLevel(f) ==
    /\ f # maxLevel
    /\ maxLevel' = f
    /\ UNCHANGED <<entry, pc, call, ncalls, once, holder, poisoned, seen,
                   emitted, inserted, constructions, returned, issued, started>>

\* the steps of a thread whose logger returns, in a client that calls
\* through the sites S at most bound times
Step(t, S, bound) ==
    \/ \E s \in S : \E in \in Inputs(s) : ncalls < bound /\ Call(t, s, in)
    \/ Format(t)
    \/ OnceBegin(t)
    \/ CreateStatic(t)
    \/ OnceDone(t)
    \/ Lock(t)
    \/ Event(t)
    \/ Check(t)
    \/ DoInsert(t)
    \/ Log(t)
    \/ Unlock(t)

\* the test's main thread
MainThread == CHOOSE t \in Threads : \A u \in Threads : t <= u

\* concurrent client: any thread, any site, the logger may panic
Next ==
    \E t \in Threads :
        \/ Step(t, MainSites, MaxCalls)
        \/ LogPanic(t)
        \/ LockPoisoned(t)

Spec == Init /\ [][Next]_vars

\* concurrent client on two level-macro sites, the logger may panic
NextShared ==
    \E t \in Threads :
        \/ Step(t, SharedSites, MaxCalls)
        \/ LogPanic(t)
        \/ LockPoisoned(t)

SpecShared == Init /\ [][NextShared]_vars

\* sequential client (the loops of tests/error.rs, tests/info.rs)
NextSeq == Step(MainThread, MainSites, MaxSeqCalls)

SpecSeq == Init /\ [][NextSeq]_vars

\* sequential client that writes each call both ways
NextTwin == Step(MainThread, TwinSites, MaxSeqCalls)

SpecTwin == Init /\ [][NextTwin]_vars

\* concurrent client whose logger may log through the site it is called from
NextReentrant ==
    \/ Next
    \/ \E t \in Threads : LogReenter(t) \/ RelockPanic(t)

SpecReentrant == Init /\ [][NextReentrant]_vars

\* sequential client that changes the facade's maximum level between and
\* during its calls
NextLevel ==
    \/ Step(MainThread, MainSites, MaxCalls)
    \/ \E f \in LogLevelFilter : SetMaxLevel(f)

SpecLevel == InitLevel /\ [][NextLevel]_vars

\* the steps of a call in progress
Progress(t) ==
    \/ Format(t)
    \/ OnceBegin(t)
    \/ CreateStatic(t)
    \/ OnceDone(t)
    \/ Lock(t)
    \/ Event(t)
    \/ Check(t)
    \/ DoInsert(t)
    \/ Log(t)
    \/ Unlock(t)

\* concurrent client whose logger returns without panicking or logging
NextFair == \E t \in Threads : Step(t, FairSites, MaxCalls)

\* the scheduler lets every thread that can take a step of its call take one
SpecFair ==
    Init /\ [][NextFair]_vars /\ \A t \in Threads : WF_vars(Progress(t))

TypeOK ==
    /\ entry \in LevelMacros
    /\ pc \in [Threads -> {"idle", "format", "once", "create", "lock", "event", "contains",
                           "insert", "log", "relock", "unlock", "panicked"}]
    /\ once \in [Sites -> {"incomplete", "running", "complete"}]
    /\ maxLevel \in LogLevelFilter
    /\ constructions \in [Sites -> Nat]
    /\ holder \in [Sites -> Threads \cup {NoThread}]
    /\ poisoned \in [Sites -> BOOLEAN]
    /\ \A s \in Sites : IsFiniteSet(seen[s])

(* ------------------------- reading the histories ----------------------- *)
\* the fingerprint the code computes for message m at site s
SiteFingerprint(s, m) == Fingerprint(Expand(Site(s)), m)

\* the positions of emitted holding a record of site s with fingerprint f
EmittedAt(s, f) ==
    {k \in DOMAIN emitted :
        emitted[k].site = s /\ SiteFingerprint(s, emitted[k].message) = f}

\* the (target, level, message) a returned call or an emitted record carries
Triple(r) == [target |-> r.target, level |-> r.level, message |-> r.message]

\* the records site s has handed to the facade, in order
EmittedFrom(s) ==
    LET keep(r) == r.site = s
    IN [k \in DOMAIN SelectSeq(emitted, keep) |-> Triple(SelectSeq(emitted, keep)[k])]

\* the messages called through site s, in order
IssuedMessages(s) ==
    LET keep(c) == c.site = s
    IN [k \in DOMAIN SelectSeq(issued, keep) |->
            Render(Expand(Site(s)), SelectSeq(issued, keep)[k].in)]

RECURSIVE FirstOccurrences(_)
\* a sequence with every repetition of an earlier element removed
FirstOccurrences(q) ==
    IF q = <<>> THEN <<>>
    ELSE LET front == FirstOccurrences(SubSeq(q, 1, Len(q) - 1))
         IN IF \E k \in DOMAIN front : front[k] = q[Len(q)]
            THEN front ELSE Append(front, q[Len(q)])

\* the (site, fingerprint) pairs of the calls made, in order
IssuedKeys == [k \in DOMAIN issued |-> [site |-> issued[k].site, event |-> issued[k].event]]

\* the (site, fingerprint) pairs of the records emitted, in order
EmittedKeys ==
    [k \in DOMAIN emitted |->
        [site |-> emitted[k].site,
         event |-> SiteFingerprint(emitted[k].site, emitted[k].message)]]

\* the messages whose fingerprint is in the seen-set of site s
SeenMessages(s) ==
    {m \in {emitted[k].message : k \in DOMAIN emitted} \cup
           {Render(Expand(Site(s)), in) : in \in Inputs(s)} :
        SiteFingerprint(s, m) \in seen[s]}

C2_ConcurrentExactlyOnce ==
    /\ \A k1, k2 \in DOMAIN emitted :
          (emitted[k1].site = emitted[k2].site
           /\ SiteFingerprint(emitted[k1].site, emitted[k1].message)
              = SiteFingerprint(emitted[k2].site, emitted[k2].message))
          => k1 = k2
    /\ \A x \in returned :
          EmittedAt(x.site, SiteFingerprint(x.site, x.message)) # {}

\* two threads in the same site with the same fingerprint: one has emitted
\* and still holds the lock, the other waits for it
C2_Witness ==
    \E t1, t2 \in Threads :
        /\ t1 # t2
        /\ call[t1].site = "a" /\ call[t2].site = "a"
        /\ pc[t1] = "unlock" /\ call[t1].outcome = "emitted"
        /\ pc[t2] = "lock"
        /\ call[t2].message = call[t1].message
        /\ Len(emitted) = 1

(* -------------------------------- C3 ----------------------------------- *)
\* C3: a call is suppressed only when a record with its own rendered
\* message has been emitted from its site, and two returned calls with the
\* same target and level but different messages have both been emitted.
C3_DistinctMessagesEmitted ==
    /\ \A t \in Threads :
          call[t].outcome = "suppressed"
          => \E k \in DOMAIN emitted :
                emitted[k].site = call[t].site /\ emitted[k].message = call[t].message
    /\ \A x, y \in returned :
          (x.site = y.site /\ x.target = y.target /\ x.level = y.level
           /\ x.message # y.message)
          => \E k1, k2 \in DOMAIN emitted :
                /\ emitted[k1].site = x.site /\ emitted[k1].message = x.message
                /\ emitted[k2].site = x.site /\ emitted[k2].message = y.message

\* two calls through site a with the same target and level and different
\* messages have returned, both emitted
C3_Witness ==
    /\ \E x, y \in returned :
          x.site = "a" /\ y.site = "a" /\ x.target = y.target /\ x.level = y.level
          /\ x.message # y.message
    /\ Len(EmittedFrom("a")) = 2

(* -------------------------------- C4 ----------------------------------- *)
\* C4: in a single-threaded run the records emitted are, in order, the
\* first occurrences of the fingerprints in the call sequence (the last of
\* them still missing only while its call is in progress).
C4_FirstOccurrenceOrder ==
    LET first == FirstOccurrences(IssuedKeys)
    IN /\ Len(EmittedKeys) <= Len(first)
       /\ \A k \in DOMAIN EmittedKeys : EmittedKeys[k] = first[k]
       /\ pc[MainThread] = "idle" => EmittedKeys = first

\* A, B, A, B through site a: two records, A's then B's
C4_Witness ==
    /\ Len(issued) = 4
    /\ \A k \in DOMAIN issued : issued[k].site = "a"
    /\ issued[1].event # issued[2].event
    /\ issued[3].event = issued[1].event
    /\ issued[4].event = issued[2].event
    /\ pc[MainThread] = "idle"
    /\ EmittedKeys = <<IssuedKeys[1], IssuedKeys[2]>>

(* -------------------------------- C5 ----------------------------------- *)
\* C5: a call with a format string and arguments has evaluated its
\* arguments zero times before format! and exactly once from then on,
\* whether it goes on to be emitted or suppressed.
C5_ArgumentsEvaluatedOnce ==
    \A t \in Threads :
        (call[t].site # "" /\ X(t).form = "fmt")
        => call[t].evals = IF pc[t] = "format" THEN 0 ELSE 1

\* a format-form call about to return suppressed (the one record is an
\* earlier call's), its arguments evaluated once
C5_Witness ==
    \E t \in Threads :
        /\ call[t].site = "a" /\ pc[t] = "unlock"
        /\ call[t].outcome = "suppressed" /\ call[t].evals = 1
        /\ Len(emitted) = 1

(* -------------------------------- C6 ----------------------------------- *)
\* C6: two calls that reached the same seen-set with the same rendered
\* message but different target values, or different level values, have
\* both been emitted.
C6_KeyedByValues ==
    \A x, y \in returned :
        (x.site = y.site /\ x.message = y.message
         /\ (x.target # y.target \/ x.level # y.level))
        => /\ \E k \in DOMAIN emitted :
                emitted[k].site = x.site /\ Triple(emitted[k]) = Triple(x)
           /\ \E k \in DOMAIN emitted :
                emitted[k].site = y.site /\ Triple(emitted[k]) = Triple(y)

(* -------------------------------- C7 ----------------------------------- *)
\* no thread is past lock() in site s
NobodyInside(s) ==
    /\ holder[s] = NoThread
    /\ \A t \in Threads :
          call[t].site = s
          => pc[t] \notin {"event", "contains", "insert", "log", "unlock"}

\* C7: once the mutex of a seen-set is poisoned it stays poisoned, every
\* call that comes to lock it panics, no thread gets inside, the seen-set
\* keeps its content and the facade receives nothing more from that site.
C7_PoisonedFailsFast ==
    [][\A s \in Sites :
          poisoned[s]
          => /\ poisoned'[s]
             /\ seen'[s] = seen[s]
             /\ EmittedFrom(s)' = EmittedFrom(s)
             /\ NobodyInside(s) /\ NobodyInside(s)'
             /\ \A t \in Threads :
                   (call[t].site = s /\ pc[t] = "lock" /\ pc'[t] # "lock")
                   => (pc'[t] = "panicked" /\ call'[t].outcome = "poison")]_vars

\* a call has panicked on the poisoned mutex of a site whose earlier holder
\* panicked inside the logger
C7_Witness ==
    \E t \in Threads :
        /\ pc[t] = "panicked" /\ call[t].outcome = "poison"
        /\ poisoned[call[t].site]
        /\ Len(EmittedFrom(call[t].site)) = 1

(* -------------------------------- C8 ----------------------------------- *)
\* C8: the facade never holds two records with the same (target, level,
\* message) that came from two invocation sites of the same level macro.
C8_SharedPerLevelMacro ==
    \A k1, k2 \in DOMAIN emitted :
        (/\ Site(emitted[k1].site).macro \in LevelMacros
         /\ Site(emitted[k1].site).macro = Site(emitted[k2].site).macro
         /\ Triple(emitted[k1]) = Triple(emitted[k2]))
        => k1 = k2

(* -------------------------------- C9 ----------------------------------- *)
\* C9: a level macro without a target (site a) and log_once! written with
\* that level and with the caller's module path as target (site d), given
\* the same sequence of messages, have handed the same (target, level,
\* message) records to the facade in the same order and hold the same
\* messages in their seen-sets.
C9_LevelMacroAsGeneric ==
    (pc[MainThread] = "idle" /\ IssuedMessages("a") = IssuedMessages("d"))
    => /\ EmittedFrom("a") = EmittedFrom("d")
       /\ SeenMessages("a") = SeenMessages("d")
       /\ Cardinality(seen["a"]) = Cardinality(seen["d"])

\* trace_once! and log_once!(target: "app", LogLevel::Trace, ..) have each
\* been called with "m0" then "m1" and each emitted both
C9_Witness ==
    /\ entry = "trace_once"
    /\ pc[MainThread] = "idle"
    /\ Len(IssuedMessages("a")) = 2
    /\ IssuedMessages("a") = IssuedMessages("d")
    /\ EmittedFrom("a") =
          <<[target |-> ClientModule, level |-> "Trace", message |-> "m0"],
            [target |-> ClientModule, level |-> "Trace", message |-> "m1"]>>
    /\ EmittedFrom("d") = EmittedFrom("a")

(* -------------------------------- C10 ---------------------------------- *)
\* C10: a thread forwarding a record to the facade does not hold the lock
\* of its seen-set (the lock was released after the insert).
C10_ForwardOutsideLock ==
    \A t \in Threads : pc[t] = "log" => holder[call[t].site] # t

\* what the code does instead: from lock() until the call returns or
\* unwinds, across the check, the insert and the forward to the facade, the
\* thread holds the lock of its seen-set
LockHeldAcrossForward ==
    \A t \in Threads :
        pc[t] \in {"event", "contains", "insert", "log", "unlock"}
        => holder[call[t].site] = t

(* -------------------------------- C11 ---------------------------------- *)
\* C11: no thread is ever inside lock() on a seen-set mutex that the same
\* thread holds, whatever the logger does with the record it is handed.
C11_NoSelfDeadlock ==
    \A t \in Threads :
        ~(pc[t] = "relock" /\ holder[call[t].site] = t)

(* -------------------------------- C12 ---------------------------------- *)
\* C12: a call whose record the facade dropped because its level was
\* disabled has left the seen-set as it found it: at the end of the call
\* its fingerprint is not in the seen-set.
C12_DisabledSkipsFingerprint ==
    \A t \in Threads :
        (pc[t] = "unlock" /\ call[t].outcome = "filtered")
        => call[t].event \notin seen[call[t].site]

(* -------------------------------- C13 ---------------------------------- *)
\* C13: a call without interpolation arguments has evaluated its message
\* expression zero times until the fingerprint is built and exactly once
\* from the duplicate check on, whether it is emitted or suppressed.
C13_MessageEvaluatedOnce ==
    \A t \in Threads :
        (call[t].site # "" /\ X(t).form = "msg")
        => call[t].evals =
              IF pc[t] \in {"once", "create", "lock", "event"} THEN 0 ELSE 1

(* -------------------------------- C14 ---------------------------------- *)
\* C14: no step of any thread takes a fingerprint out of a seen-set: what
\* a seen-set holds before a step it holds after it.
C14_SeenOnlyGrows ==
    [][\A s \in Sites : seen[s] \subseteq seen'[s]]_vars

\* a seen-set that grew twice, both calls returned, and kept both entries
C14_Witness ==
    \E s \in Sites :
        /\ Cardinality(seen[s]) = 2
        /\ Len(inserted[s]) = 2
        /\ \A t \in Threads : pc[t] = "idle"

(* -------------------------------- C15 ---------------------------------- *)
\* the threads whose current call through site s is at one of the places pcs
At(s, pcs) == {t \in Threads : call[t].site = s /\ pc[t] \in pcs}

\* C15: the seen-set of a site is constructed at most once, by exactly one
\* thread while ONCE is running, not before a call reaches the site; until
\* construction has completed the set is empty and untouched and no thread
\* is past call_once; from then on every caller works on that one set.
C15_CreatedOnceLazily ==
    \A s \in Sites :
        /\ constructions[s] <= 1
        /\ (constructions[s] = 1) <=> (once[s] = "complete")
        /\ (once[s] = "running") <=> (Cardinality(At(s, {"create"})) = 1)
        /\ Cardinality(At(s, {"create"})) <= 1
        /\ once[s] = "incomplete" => \A k \in DOMAIN issued : issued[k].site # s
                                      \/ At(s, {"format", "once"}) # {}
        /\ once[s] # "complete"
           => /\ seen[s] = {} /\ inserted[s] = <<>>
              /\ holder[s] = NoThread /\ ~poisoned[s]
              /\ At(s, {"lock", "event", "contains", "insert", "log",
                        "unlock", "panicked"}) = {}

\* two threads made the first calls through one site at the same time: the
\* set was constructed once, one thread is inside it, the other at its lock
C15_Witness ==
    \E s \in Sites : \E t, u \in Threads :
        /\ t # u /\ call[t].site = s /\ call[u].site = s
        /\ Len(issued) = 2
        /\ constructions[s] = 1 /\ once[s] = "complete"
        /\ pc[t] = "log" /\ pc[u] = "lock"
        /\ seen[s] = {call[t].event}

(* -------------------------------- C16 ---------------------------------- *)
\* no call through site s has panicked
NoPanicAt(s) == ~poisoned[s] /\ At(s, {"panicked"}) = {}

\* C16: with every level enabled, whenever the lock of a seen-set is free
\* and no call through its site has panicked, the fingerprints in the
\* seen-set are exactly the fingerprints of the records the site has handed
\* to the facade, and each of them was handed over exactly once.
C16_SeenEqualsForwarded ==
    \A s \in Sites :
        (/\ LockFree(s) /\ NoPanicAt(s)
         /\ \A l \in LogLevel : LevelEnabled(l, maxLevel))
        => /\ seen[s] = {SiteFingerprint(s, emitted[k].message) :
                            k \in {j \in DOMAIN emitted : emitted[j].site = s}}
           /\ \A f \in seen[s] : Cardinality(EmittedAt(s, f)) = 1

\* a site through which a message was emitted and then suppressed, its lock
\* free again: one fingerprint in the set, one record at the facade
C16_Witness ==
    \E s \in Sites :
        /\ LockFree(s) /\ NoPanicAt(s)
        /\ Len(issued) = 2 /\ issued[1] = issued[2] /\ issued[1].site = s
        /\ \A t \in Threads : pc[t] = "idle"
        /\ Cardinality(seen[s]) = 1
        /\ Len(emitted) = 1

(* -------------------------------- C17 ---------------------------------- *)
\* the fingerprints of the records site s has handed to the facade, in order
EmittedEvents(s) ==
    [k \in DOMAIN EmittedFrom(s) |-> SiteFingerprint(s, EmittedFrom(s)[k].message)]

\* C17: the records a site has handed to the facade follow the order in
\* which their fingerprints were inserted into its seen-set: the emitted
\* fingerprints are the first of the inserted ones, in the same order, and
\* at most the last inserted one is still to be emitted.
C17_EmittedInInsertionOrder ==
    \A s \in Sites :
        /\ Len(EmittedEvents(s)) <= Len(inserted[s])
        /\ Len(inserted[s]) <= Len(EmittedEvents(s)) + 1
        /\ \A k \in DOMAIN EmittedEvents(s) : EmittedEvents(s)[k] = inserted[s][k]

\* two threads have called through one site with different messages: the
\* record of the first is at the facade, the second thread has inserted its
\* fingerprint and is about to forward its record
C17_Witness ==
    \E s \in Sites : \E t \in Threads :
        /\ started = NumThreads
        /\ call[t].site = s /\ pc[t] = "log"
        /\ Len(inserted[s]) = 2 /\ inserted[s][2] = call[t].event
        /\ EmittedEvents(s) = <<inserted[s][1]>>
        /\ \E r \in returned : r.site = s /\ r.message # call[t].message

(* -------------------------------- C18 ---------------------------------- *)
\* C18: under a fair scheduler and a logger that returns, every call in
\* progress returns, and whenever no call is in progress every seen-set
\* lock is free.
C18_EveryCallReturns ==
    /\ \A t \in Threads : (pc[t] # "idle") ~> (pc[t] = "idle")
    /\ []((\A t \in Threads : pc[t] = "idle") => \A s \in Sites : LockFree(s))

\* two threads have called through one site with the same message, one was
\* emitted and one suppressed; both have returned and the lock is free
C18_Witness ==
    /\ started = NumThreads
    /\ \A t \in Threads : pc[t] = "idle"
    /\ Len(issued) = 2 /\ issued[1] = issued[2]
    /\ Cardinality(returned) = 1
    /\ Len(emitted) = 1
    /\ LockFree(issued[1].site)

====
